---- MODULE Spec2Model ----
(***************************************************************************)
(* A model of src/coap-server.js: the CoapServer class, which answers      *)
(* GET /cit/s requests on a unicast and a multicast CoAP listener and      *)
(* announces the device status to the multicast group on start, on every   *)
(* device 'change' event and every 30000 ms.                               *)
(*                                                                         *)
(* Strings that the code takes apart (the uri, decimal numbers) are        *)
(* sequences of one-character strings; strings it only concatenates are    *)
(* TLA+ strings.  Time is in milliseconds.  Node's event loop is modelled  *)
(* by one action per callback and one per promise reaction job.  The jobs  *)
(* wait in a queue; timers and requests run when it is empty, and the      *)
(* caller's own code (start, stop, a 'change' event) may run between any   *)
(* two jobs, as a microtask of the caller does.                            *)
(***************************************************************************)
EXTENDS Integers, Sequences, FiniteSets, TLC

(* ------------------------------ bounds -------------------------------- *)
\* start() calls, stop() calls, device 'change' events and requests in one
\* behaviour, counted together
MaxEvents == 3
\* the clock stops here
MaxTime == 45000
\* the CoapServer instances one process constructs
MaxInstances == 10
\* the direct calls of CoapServer.registerOptions() in one process
MaxRegisterCalls == 10

(* ---------------------- constants of the program ---------------------- *)
COAP_MULTICAST_ADDRESS == "224.0.1.187"
STATUS_PATH == <<"/", "c", "i", "t", "/", "s">>
BROADCAST_INTERVAL == 30000
VALIDITY == 38400
MULTICAST_TIMEOUT == 100
INITIAL_SERIAL == 1
UINT16_MAX == 65535

\* the clock advances in halves of the broadcast interval
TimeStep == BROADCAST_INTERVAL \div 2

Null == 0
NoError == "none"
\* what req.end and res.end throw when the transport fails
SendError == "SendError"

\* the numbers of the three custom options
GLOBAL_DEVID == "3332"
STATUS_VALIDITY == "3412"
STATUS_SERIAL == "3420"
CustomOptions == {GLOBAL_DEVID, STATUS_VALIDITY, STATUS_SERIAL}

(* ------------------------- pure functions ----------------------------- *)
DigitChars == <<"0", "1", "2", "3", "4", "5", "6", "7", "8", "9">>
LowerHexChars == <<"a", "b", "c", "d", "e", "f">>
UpperHexChars == <<"A", "B", "C", "D", "E", "F">>

\* a JavaScript number: NaN, or an integer
NaN == [nan |-> TRUE]
Number(n) == [nan |-> FALSE, val |-> n]

\* String(n) for an integer n: its decimal digits, after a minus sign if
\* n < 0
RECURSIVE NumberToString(_)
NumberToString(n) ==
    IF n < 0 THEN <<"-">> \o NumberToString(0 - n)
    ELSE IF n < 10 THEN <<DigitChars[n + 1]>>
    ELSE NumberToString(n \div 10) \o <<DigitChars[(n % 10) + 1]>>

\* the value of the character c as a digit, 0..15, or -1 if it is none
DigitValue(c) ==
    IF \E d \in 1..10 : DigitChars[d] = c
    THEN (CHOOSE d \in 1..10 : DigitChars[d] = c) - 1
    ELSE IF \E d \in 1..6 : LowerHexChars[d] = c
    THEN (CHOOSE d \in 1..6 : LowerHexChars[d] = c) + 9
    ELSE IF \E d \in 1..6 : UpperHexChars[d] = c
    THEN (CHOOSE d \in 1..6 : UpperHexChars[d] = c) + 9
    ELSE -1

\* c is a digit of the radix
IsDigit(c, radix) == DigitValue(c) >= 0 /\ DigitValue(c) < radix

\* the characters U+000B, U+00A0, U+1680 and U+FEFF
VerticalTab == ""
NoBreakSpace == " "
OghamSpaceMark == " "
ByteOrderMark == "﻿"

\* StrWhiteSpaceChar, the white space parseInt skips: tab, vertical tab,
\* form feed, space, no-break space, U+FEFF, the line terminators and the
\* space separators.  The space separators U+2000 to U+200A, U+202F, U+205F
\* and U+3000 and the line terminators U+2028 and U+2029 cannot be written
\* in a string of this module, so no string here contains them.
WhiteSpaceChars ==
    {" ", "\t", "\n", "\r", "\f", VerticalTab, NoBreakSpace,
     OghamSpaceMark, ByteOrderMark}

RECURSIVE SkipWhiteSpace(_)
SkipWhiteSpace(cs) ==
    IF cs # <<>> /\ Head(cs) \in WhiteSpaceChars
    THEN SkipWhiteSpace(Tail(cs))
    ELSE cs

\* the value of the leading run of digits of cs in the radix, given the
\* value acc of the digits read so far; seen says whether a digit was read
RECURSIVE ParseDigits(_, _, _, _)
ParseDigits(cs, radix, acc, seen) ==
    IF cs = <<>> \/ ~IsDigit(Head(cs), radix)
    THEN IF seen THEN Number(acc) ELSE NaN
    ELSE ParseDigits(Tail(cs), radix, acc * radix + DigitValue(Head(cs)), TRUE)

\* parseInt(str) on a string of characters, without a radix argument: white
\* space is skipped, a sign is read, 0x or 0X makes the radix 16, and the
\* leading run of digits is the value; NaN without a digit
ParseInt(cs) ==
    LET s1 == SkipWhiteSpace(cs)
        signed == s1 # <<>> /\ Head(s1) \in {"+", "-"}
        negative == s1 # <<>> /\ Head(s1) = "-"
        s2 == IF signed THEN Tail(s1) ELSE s1
        hex == Len(s2) >= 2 /\ s2[1] = "0" /\ s2[2] \in {"x", "X"}
        s3 == IF hex THEN Tail(Tail(s2)) ELSE s2
        m == ParseDigits(s3, IF hex THEN 16 ELSE 10, 0, FALSE)
    IN  IF m.nan THEN NaN
        ELSE IF negative THEN Number(0 - m.val)
        ELSE m

\* mutant: the low byte is written first
WriteUInt16LE(v) ==
    IF v.nan THEN [error |-> NoError, bytes |-> <<0, 0>>]
    ELSE IF v.val < 0 \/ v.val > UINT16_MAX
    THEN [error |-> "RangeError", bytes |-> <<>>]
    ELSE [error |-> NoError, bytes |-> <<v.val % 256, v.val \div 256>>]

\* buf.writeUInt16BE(v, 0) on a 2-byte buffer: the two bytes, or a RangeError
\* for an integer outside [0, 65535]; NaN is written as 0
WriteUInt16BE(v) ==
    IF v.nan THEN [error |-> NoError, bytes |-> <<0, 0>>]
    ELSE IF v.val < 0 \/ v.val > UINT16_MAX
    THEN [error |-> "RangeError", bytes |-> <<>>]
    ELSE [error |-> NoError, bytes |-> <<v.val \div 256, v.val % 256>>]

\* buf.readUInt16BE(0)
ReadUInt16BE(bytes) == bytes[1] * 256 + bytes[2]

\* the toBinary function registered for STATUS_VALIDITY and STATUS_SERIAL,
\* applied to a number: parseInt converts the number to its decimal string
EncodeUInt16Option(n) == WriteUInt16BE(ParseInt(NumberToString(n)))

\* mutant: the identifier without its suffix
getDeviceIdentifierNoSuffix(dev) == dev.type \o "#" \o dev.id

\* `${device.type}#${device.id}#1`
getDeviceIdentifier(dev) == dev.type \o "#" \o dev.id \o "#1"

\* uri.split('/'): cur is the part being read, acc the parts read
RECURSIVE SplitSlash(_, _, _)
SplitSlash(cs, cur, acc) ==
    IF cs = <<>> THEN Append(acc, cur)
    ELSE IF Head(cs) = "/" THEN SplitSlash(Tail(cs), <<>>, Append(acc, cur))
    ELSE SplitSlash(Tail(cs), Append(cur, Head(cs)), acc)

\* the buffers setUriPath collects: the non-empty parts of the uri
UriPathBuffers(uri) == SelectSeq(SplitSlash(uri, <<>>, <<>>), LAMBDA p : p # <<>>)

\* JSON.stringify of a status payload; the payload is a number here
JSONstringify(payload) == NumberToString(payload)

(* ------------------------------ state --------------------------------- *)
VARIABLES
    device,          \* the device: [type, id, payload]
    subs,            \* listeners of the device's 'change' event that are
                     \* (this._deviceChangeHandler, this)
    server,          \* this.server: Null or an index into socks
    multicastServer, \* this.multicastServer: Null or an index into socks
    socks,           \* the coap servers created so far
    starts,          \* the promises of the start() calls so far
    micro,           \* the microtask queue: the promise reaction jobs of the
                     \* start() calls, oldest first
    draining,        \* a job of the queue has run and the queue is not yet
                     \* empty
    serial,          \* this._serial
    timeout,         \* this._statusBroadcastTimeout: Null or a timer id
    timers,          \* the timers pending in the event loop: [id, at]
    now,             \* the clock, ms
    nsent,           \* messages sent so far (announcements and responses)
    anns,            \* announcements sent so far
    lastMsg,         \* the last message sent
    annTime,         \* when the last announcement was sent, and what caused it
    annCause,
    prevAnnTime,     \* the same for the announcement before it
    prevAnnCause,
    thrown,          \* the exception that escaped the last callback
    lastReq,         \* the request the last step handled, and how often
                     \* res.end ran for it
    lastOp,          \* what the last step did
    nStops,          \* stop() calls so far
    nChanges,        \* 'change' events so far
    nRequests,       \* requests so far
    stopMark,        \* anns at the last stop() made while a start() was
                     \* pending, until the next start(); else -1
    quiet,           \* neither stop() ran nor a 'change' event occurred
                     \* since the last announcement
    cleanMark,       \* anns at the last stop() made when a start() had
                     \* completed and none was pending, until the next
                     \* start(); else -1
    faulty,          \* the transport's send primitive throws
    nFaults,         \* changes of faulty so far
    logged,          \* what the last step gave console.error
    registry,        \* the process: CoapServer._optionsRegistered, how often
                     \* each option was given to coap.registerOption, and the
                     \* constructor and registerOptions() calls so far
    codec            \* an option value on its way through the registered
                     \* toBinary and toString functions

vars == <<device, subs, server, multicastServer, socks, starts, micro,
          draining, serial,
          timeout, timers, now, nsent, anns, lastMsg, annTime, annCause,
          prevAnnTime, prevAnnCause, thrown, lastReq, lastOp,
          nStops, nChanges, nRequests, stopMark, quiet, cleanMark, faulty,
          nFaults, logged, registry, codec>>

DeviceTypes == {"SHSW-1"}
DeviceIds == {"A1B2C3"}
Payloads == {0, 17}
InitialPayload == CHOOSE p \in Payloads : \A q \in Payloads : p <= q
Methods == {"GET", "POST"}
Urls == {STATUS_PATH, <<"/", "c", "i", "t", "/", "s", "/">>}
BindErrors == {"EADDRINUSE"}

NoMsg == [kind |-> "none"]
NoCodec == [stage |-> "idle"]
NoReq == [method |-> "none", url |-> <<>>, ended |-> 0]

\* the part of the state the methods of CoapServer read and write, as one
\* record, so that a method that calls another is a composition
Cur ==
    [device |-> device, subs |-> subs, server |-> server,
     multicastServer |-> multicastServer, socks |-> socks, starts |-> starts,
     micro |-> micro,
     serial |-> serial, timeout |-> timeout, timers |-> timers,
     nsent |-> nsent, anns |-> anns, lastMsg |-> lastMsg,
     annTime |-> annTime, annCause |-> annCause,
     prevAnnTime |-> prevAnnTime, prevAnnCause |-> prevAnnCause,
     faulty |-> faulty, thrown |-> NoError, logged |-> NoError]

Commit(s) ==
    /\ device' = s.device
    /\ subs' = s.subs
    /\ server' = s.server
    /\ multicastServer' = s.multicastServer
    /\ socks' = s.socks
    /\ starts' = s.starts
    /\ micro' = s.micro
    /\ serial' = s.serial
    /\ timeout' = s.timeout
    /\ timers' = s.timers
    /\ nsent' = s.nsent
    /\ anns' = s.anns
    /\ lastMsg' = s.lastMsg
    /\ annTime' = s.annTime
    /\ annCause' = s.annCause
    /\ prevAnnTime' = s.prevAnnTime
    /\ prevAnnCause' = s.prevAnnCause
    /\ thrown' = s.thrown
    /\ logged' = s.logged

(* ---------------------------- the process ---------------------------- *)
\* a process that has loaded the module and constructed nothing
ProcessStart ==
    [flag |-> FALSE, count |-> [o \in CustomOptions |-> 0],
     instances |-> 0, calls |-> 0]

\* mutant: registers without looking at _optionsRegistered
registerOptionsUnguarded(r) ==
    [r EXCEPT !.count = [o \in CustomOptions |-> @[o] + 1], !.flag = TRUE]

\* CoapServer.registerOptions: three coap.registerOption calls, once
registerOptions(r) ==
    IF r.flag
    THEN r
    ELSE [r EXCEPT !.count = [o \in CustomOptions |-> @[o] + 1],
                   !.flag = TRUE]

\* what the constructor does to the process
NewCoapServer(r) == registerOptions([r EXCEPT !.instances = @ + 1])

(* --------------------------- the event loop --------------------------- *)
\* clearTimeout(id): the timer, if it is still pending, is dropped
clearTimeout(s, id) == [s EXCEPT !.timers = {tm \in @ : tm.id # id}]

\* the handle setTimeout returns: one that no pending timer has
NewTimerId(pending) ==
    CHOOSE n \in 1..(Cardinality(pending) + 1) :
        /\ \A tm \in pending : tm.id # n
        /\ \A m \in 1..(n - 1) : \E tm \in pending : tm.id = m

(* ---------------------- the methods of CoapServer --------------------- *)
\* mutant: the timer armed before is not cancelled
ClearPendingTimeoutSkipped(s) == s

\* _broadcastStatus, first statement: cancel the timer armed before
ClearPendingTimeout(s) ==
    IF s.timeout # Null THEN clearTimeout(s, s.timeout) ELSE s

\* mutant: the next broadcast is armed only when no handle is held, so the
\* expiry of a timer does not arm the next one
ArmTimeoutOnlyOnce(s, t) ==
    IF s.timeout # Null THEN s
    ELSE [s EXCEPT !.timers = @ \cup {[id |-> 1, at |-> t + BROADCAST_INTERVAL]},
                   !.timeout = 1]

\* _broadcastStatus, second statement: arm the next broadcast
ArmTimeout(s, t) ==
    LET id == NewTimerId(s.timers)
    IN  [s EXCEPT !.timers = @ \cup {[id |-> id, at |-> t + BROADCAST_INTERVAL]},
                  !.timeout = id]

\* _broadcastStatus, the rest: the multicast request.  The option values
\* are encoded when coap.request sets them, after this._serial++ ran.
SendAnnouncement(s, cause, t) ==
    LET devid == getDeviceIdentifier(s.device)
        validity == EncodeUInt16Option(VALIDITY)
        ser == EncodeUInt16Option(s.serial)
        s1 == [s EXCEPT !.serial = @ + 1]
    IN  IF validity.error # NoError THEN [s1 EXCEPT !.thrown = validity.error]
        ELSE IF ser.error # NoError THEN [s1 EXCEPT !.thrown = ser.error]
        ELSE IF s.faulty THEN [s1 EXCEPT !.thrown = SendError]
        ELSE [s1 EXCEPT
                !.nsent = @ + 1,
                !.anns = @ + 1,
                !.lastMsg = [kind |-> "announcement",
                             host |-> COAP_MULTICAST_ADDRESS,
                             pathname |-> STATUS_PATH,
                             multicast |-> TRUE,
                             multicastTimeout |-> MULTICAST_TIMEOUT,
                             code |-> "0.30",
                             uriPath |-> <<>>,
                             devid |-> devid,
                             validity |-> validity.bytes,
                             serial |-> ser.bytes,
                             body |-> JSONstringify(s.device.payload)],
                !.prevAnnTime = s.annTime,
                !.prevAnnCause = s.annCause,
                !.annTime = t,
                !.annCause = cause]

broadcastStatus(s, cause, t) ==
    SendAnnouncement(ArmTimeout(ClearPendingTimeout(s), t), cause, t)

\* mutant: the listener is closed and keeps its request handler
closeServerKeepsHandler(s, i) ==
    [s EXCEPT !.socks[i].closes = @ + 1]

\* server.close(); server.removeListener('request', ...)
closeServer(s, i) ==
    [s EXCEPT !.socks[i].closes = @ + 1, !.socks[i].handler = FALSE]

\* mutant: the handle is dropped without clearTimeout
stopLeavesTimer(s) ==
    LET s1 == [s EXCEPT !.subs = 0]
        s2 == IF s1.server # Null
              THEN [closeServer(s1, s1.server) EXCEPT !.server = Null]
              ELSE s1
        s3 == IF s2.multicastServer # Null
              THEN [closeServer(s2, s2.multicastServer) EXCEPT !.multicastServer = Null]
              ELSE s2
    IN  [s3 EXCEPT !.timeout = Null]

\* mutant: the listeners are closed but the fields keep them
stopKeepsListeners(s) ==
    LET s1 == [s EXCEPT !.subs = 0]
        s2 == IF s1.server # Null THEN closeServer(s1, s1.server) ELSE s1
        s3 == IF s2.multicastServer # Null
              THEN closeServer(s2, s2.multicastServer)
              ELSE s2
    IN  IF s3.timeout # Null
        THEN [clearTimeout(s3, s3.timeout) EXCEPT !.timeout = Null]
        ELSE s3

\* mutant: the 'change' subscription is kept
stopKeepsSubscription(s) ==
    LET s2 == IF s.server # Null
              THEN [closeServer(s, s.server) EXCEPT !.server = Null]
              ELSE s
        s3 == IF s2.multicastServer # Null
              THEN [closeServer(s2, s2.multicastServer) EXCEPT !.multicastServer = Null]
              ELSE s2
    IN  IF s3.timeout # Null
        THEN [clearTimeout(s3, s3.timeout) EXCEPT !.timeout = Null]
        ELSE s3

stop(s) ==
    LET s1 == [s EXCEPT !.subs = 0]
        s2 == IF s1.server # Null
              THEN [closeServer(s1, s1.server) EXCEPT !.server = Null]
              ELSE s1
        s3 == IF s2.multicastServer # Null
              THEN [closeServer(s2, s2.multicastServer) EXCEPT !.multicastServer = Null]
              ELSE s2
    IN  IF s3.timeout # Null
        THEN [clearTimeout(s3, s3.timeout) EXCEPT !.timeout = Null]
        ELSE s3

NewSock(kind, k) ==
    [kind |-> kind, owner |-> k, cb |-> "pending", err |-> NoError,
     closes |-> 0, handler |-> TRUE]

\* _startServer, called by the k-th start()
startServer(s, k) ==
    IF s.server # Null THEN s
    ELSE [s EXCEPT !.socks = Append(@, NewSock("unicast", k)),
                   !.server = Len(s.socks) + 1]

\* _startMulticastServer, called by the k-th start()
startMulticastServer(s, k) ==
    IF s.multicastServer # Null THEN s
    ELSE [s EXCEPT !.socks = Append(@, NewSock("multicast", k)),
                   !.multicastServer = Len(s.socks) + 1]

\* a promise reaction job of the k-th start(): of an element of Promise.all,
\* of the .then or of the .catch; err is the rejection it reacts to
Job(k, kind, err) == [k |-> k, kind |-> kind, err |-> err]

\* the promises of a start() call: left counts the elements Promise.all
\* still waits for, all is the state of Promise.all's promise, ran says
\* whether the .then callback ran, st and err are the state of the promise
\* start() returns
NewStart ==
    [left |-> 2, all |-> "pending", ran |-> "no", st |-> "pending",
     err |-> NoError]

\* start(), its synchronous part: subscribe, create the listeners that are
\* null, and return the promise.  A listener that exists gives
\* Promise.resolve(), whose reaction in Promise.all is queued at once.
start(s) ==
    LET k == Len(s.starts) + 1
        s1 == [s EXCEPT !.subs = @ + 1]
        s2 == startServer(s1, k)
        s3 == startMulticastServer(s2, k)
        unicast == IF s1.server # Null
                   THEN <<Job(k, "element", NoError)>> ELSE <<>>
        multicast == IF s2.multicastServer # Null
                     THEN <<Job(k, "element", NoError)>> ELSE <<>>
    IN  [s3 EXCEPT !.starts = Append(@, NewStart),
                   !.micro = @ \o unicast \o multicast]

\* the reaction of Promise.all to one element, fulfilled or rejected with
\* err: the first rejection rejects, the last fulfilment fulfils, and the
\* reaction of the .then is queued
promiseAll(s, k, err) ==
    IF s.starts[k].all # "pending" THEN s
    ELSE IF err # NoError
    THEN [s EXCEPT !.starts[k].all = "rejected",
                   !.micro = Append(@, Job(k, "then", err))]
    ELSE IF s.starts[k].left = 1
    THEN [s EXCEPT !.starts[k].left = 0,
                   !.starts[k].all = "fulfilled",
                   !.micro = Append(@, Job(k, "then", NoError))]
    ELSE [s EXCEPT !.starts[k].left = @ - 1]

\* the .then reaction of start(): a rejection is passed on; otherwise
\* _broadcastStatus() runs, and what it throws rejects.  The reaction of
\* the .catch is queued.
startThen(s, k, err, t) ==
    IF err # NoError
    THEN [s EXCEPT !.micro = Append(@, Job(k, "catch", err))]
    ELSE LET b == broadcastStatus(s, "start", t)
         IN  IF b.thrown # NoError
             THEN [b EXCEPT !.thrown = NoError,
                            !.starts[k].ran = "threw",
                            !.micro = Append(@, Job(k, "catch", b.thrown))]
             ELSE [b EXCEPT !.starts[k].ran = "ok",
                            !.micro = Append(@, Job(k, "catch", NoError))]

\* mutant: the error is passed on without stop()
startCatchWithoutStop(s, k, err) ==
    [s EXCEPT !.starts[k].st = "rejected", !.starts[k].err = err]

\* the .catch callback of start(): stop(), then rethrow
startCatch(s, k, err) ==
    [stop(s) EXCEPT !.starts[k].st = "rejected", !.starts[k].err = err]

\* the .catch reaction of start(): a fulfilment is passed on, a rejection
\* runs the callback
startSettle(s, k, err) ==
    IF err = NoError
    THEN [s EXCEPT !.starts[k].st = "resolved"]
    ELSE startCatch(s, k, err)

deviceChangeHandler(s, t) == broadcastStatus(s, "change", t)

\* device.emit('change'): the n listeners run in turn; an exception ends it
RECURSIVE emitChange(_, _, _)
emitChange(s, n, t) ==
    IF n = 0 THEN s
    ELSE LET s1 == deviceChangeHandler(s, t)
         IN  IF s1.thrown # NoError THEN s1 ELSE emitChange(s1, n - 1, t)

\* mutant: the empty parts of the uri are kept
setUriPathKeepsEmptyParts(uri) == SplitSlash(uri, <<>>, <<>>)

\* the value setUriPath gives the response's Uri-Path option
setUriPath(uri) == UriPathBuffers(uri)

\* mutant: the response reads the serial without incrementing it
handleStatusRequestKeepsSerial(s, t) ==
    LET ser == EncodeUInt16Option(s.serial)
    IN  [s EXCEPT
           !.nsent = @ + 1,
           !.lastMsg = [kind |-> "response",
                        host |-> "",
                        pathname |-> <<>>,
                        multicast |-> FALSE,
                        multicastTimeout |-> 0,
                        code |-> "",
                        uriPath |-> UriPathBuffers(STATUS_PATH),
                        devid |-> getDeviceIdentifier(s.device),
                        validity |-> EncodeUInt16Option(VALIDITY).bytes,
                        serial |-> ser.bytes,
                        body |-> JSONstringify(s.device.payload)]]

\* mutant: the response also restarts the announcement timer
handleStatusRequestRearms(s, t) ==
    LET s0 == ArmTimeout(ClearPendingTimeout(s), t)
        ser == EncodeUInt16Option(s.serial)
    IN  [s0 EXCEPT
           !.serial = @ + 1,
           !.nsent = @ + 1,
           !.lastMsg = [kind |-> "response",
                        host |-> "",
                        pathname |-> <<>>,
                        multicast |-> FALSE,
                        multicastTimeout |-> 0,
                        code |-> "",
                        uriPath |-> UriPathBuffers(STATUS_PATH),
                        devid |-> getDeviceIdentifier(s.device),
                        validity |-> EncodeUInt16Option(VALIDITY).bytes,
                        serial |-> ser.bytes,
                        body |-> JSONstringify(s.device.payload)]]

handleStatusRequest(s, t) ==
    LET path == setUriPath(STATUS_PATH)
        devid == getDeviceIdentifier(s.device)
        validity == EncodeUInt16Option(VALIDITY)
        ser == EncodeUInt16Option(s.serial)
        s1 == [s EXCEPT !.serial = @ + 1]
    IN  IF validity.error # NoError THEN [s EXCEPT !.thrown = validity.error]
        ELSE IF ser.error # NoError THEN [s1 EXCEPT !.thrown = ser.error]
        ELSE IF s.faulty THEN [s1 EXCEPT !.thrown = SendError]
        ELSE [s1 EXCEPT
                !.nsent = @ + 1,
                !.lastMsg = [kind |-> "response",
                             host |-> "",
                             pathname |-> <<>>,
                             multicast |-> FALSE,
                             multicastTimeout |-> 0,
                             code |-> "",
                             uriPath |-> path,
                             devid |-> devid,
                             validity |-> validity.bytes,
                             serial |-> ser.bytes,
                             body |-> JSONstringify(s.device.payload)]]

\* mutant: the method is not looked at
requestHandlerAnyMethod(s, method, url, t) ==
    IF url = STATUS_PATH THEN handleStatusRequest(s, t) ELSE s

\* mutant: the exception is logged and not thrown again
requestHandlerSwallows(s, method, url, t) ==
    IF method = "GET" /\ url = STATUS_PATH
    THEN LET r == handleStatusRequest(s, t)
         IN  [r EXCEPT !.logged = r.thrown, !.thrown = NoError]
    ELSE s

\* _requestHandler: an exception is logged and thrown again
requestHandler(s, method, url, t) ==
    IF method = "GET" /\ url = STATUS_PATH
    THEN LET r == handleStatusRequest(s, t)
         IN  IF r.thrown # NoError THEN [r EXCEPT !.logged = r.thrown] ELSE r
    ELSE s

(* ------------------------------ actions ------------------------------- *)
\* the calls and events so far that the bound MaxEvents counts
nEvents == Len(starts) + nStops + nChanges + nRequests + nFaults

\* promise reaction jobs are queued: they run before any timer or socket
\* callback
MicroPending == micro # <<>>

\* quiet after a step that leaves the methods' state s1; stopped says that
\* stop() ran in the step, changed that it delivered a 'change' event
QuietAfter(s1, stopped, changed) ==
    IF stopped THEN FALSE
    ELSE IF s1.anns > anns THEN TRUE
    ELSE IF changed THEN FALSE
    ELSE quiet

\* nothing for stop() to do: no listener, no timer, no subscription
Idle ==
    /\ server = Null
    /\ multicastServer = Null
    /\ timeout = Null
    /\ subs = 0

StartPending == \E k \in DOMAIN starts : starts[k].st = "pending"

StartCompleted == \E k \in DOMAIN starts : starts[k].st = "resolved"

\* what the actions of one server leave alone
Outside == UNCHANGED <<faulty, nFaults, registry, codec>>

\* a start() whose .then callback has run _broadcastStatus
StartAnnounced(k) == starts[k].ran # "no"

Frame ==
    /\ lastReq' = NoReq
    /\ UNCHANGED <<now, nStops, nChanges, nRequests>>
    /\ Outside

InitCommon ==
    /\ device \in [type : DeviceTypes, id : DeviceIds, payload : {InitialPayload}]
    /\ subs = 0
    /\ server = Null
    /\ multicastServer = Null
    /\ socks = <<>>
    /\ starts = <<>>
    /\ micro = <<>>
    /\ draining = FALSE
    /\ timeout = Null
    /\ timers = {}
    /\ now = 0
    /\ anns = 0
    /\ lastMsg = NoMsg
    /\ annTime = -1
    /\ annCause = "none"
    /\ prevAnnTime = -1
    /\ prevAnnCause = "none"
    /\ thrown = NoError
    /\ lastReq = NoReq
    /\ lastOp = "init"
    /\ nStops = 0
    /\ nChanges = 0
    /\ nRequests = 0
    /\ stopMark = -1
    /\ quiet = FALSE
    /\ cleanMark = -1
    /\ faulty = FALSE
    /\ nFaults = 0
    /\ logged = NoError

\* the state the constructor leaves
Init ==
    /\ InitCommon
    /\ serial = INITIAL_SERIAL
    /\ nsent = 0
    /\ registry = NewCoapServer(ProcessStart)
    /\ codec = NoCodec

\* a server that sent UINT16_MAX - 1 messages and was stopped; the history
\* variables other than nsent count from this state on
InitNearWrap ==
    /\ InitCommon
    /\ serial = UINT16_MAX
    /\ nsent = UINT16_MAX - 1
    /\ registry = NewCoapServer(ProcessStart)
    /\ codec = NoCodec

\* the caller calls start()
Start ==
    /\ nEvents < MaxEvents
    /\ Commit(start(Cur))
    /\ lastOp' = "start"
    /\ stopMark' = -1
    /\ cleanMark' = -1
    /\ lastReq' = NoReq
    /\ UNCHANGED <<now, nStops, nChanges, nRequests, quiet, draining>>
    /\ Outside

\* the oldest job of the queue, and the methods' state without it
NextJob == Head(micro)
Dequeued == [Cur EXCEPT !.micro = Tail(@)]

\* the microtask queue runs its oldest job: a reaction of Promise.all
PromiseAllJob ==
    /\ micro # <<>>
    /\ NextJob.kind = "element"
    /\ LET s1 == promiseAll(Dequeued, NextJob.k, NextJob.err)
       IN  /\ Commit(s1)
           /\ draining' = (s1.micro # <<>>)
    /\ lastOp' = "promiseAll"
    /\ UNCHANGED <<stopMark, cleanMark, quiet>>
    /\ Frame

\* the oldest job is the .then reaction of a start()
StartThenJob ==
    /\ micro # <<>>
    /\ NextJob.kind = "then"
    /\ LET s1 == startThen(Dequeued, NextJob.k, NextJob.err, now)
       IN  /\ Commit(s1)
           /\ draining' = (s1.micro # <<>>)
           /\ quiet' = QuietAfter(s1, FALSE, FALSE)
    /\ lastOp' = "startThen"
    /\ UNCHANGED <<stopMark, cleanMark>>
    /\ Frame

\* the oldest job is the .catch reaction of a start(): the promise that
\* start() returned is settled
StartSettleJob ==
    /\ micro # <<>>
    /\ NextJob.kind = "catch"
    /\ LET s1 == startSettle(Dequeued, NextJob.k, NextJob.err)
       IN  /\ Commit(s1)
           /\ draining' = (s1.micro # <<>>)
           /\ quiet' = QuietAfter(s1, NextJob.err # NoError, FALSE)
    /\ lastOp' = IF NextJob.err = NoError THEN "startResolved"
                 ELSE "startRejected"
    /\ UNCHANGED <<stopMark, cleanMark>>
    /\ Frame

\* the listen callback of a listener reports success: the promise of the
\* listener is fulfilled and its reaction in Promise.all is queued.  The
\* callback may run after stop() closed the listener: nothing in the code
\* withdraws it.  It may run before jobs that are queued, as a
\* process.nextTick callback does, but not while the queue is being run.
\* A callback for a start() whose Promise.all is settled is left out: the
\* reaction does nothing.
ListenOk ==
    \E i \in DOMAIN socks :
        /\ socks[i].cb = "pending"
        /\ starts[socks[i].owner].all = "pending"
        /\ ~draining
        /\ Commit([Cur EXCEPT
                     !.socks[i].cb = "ok",
                     !.micro = Append(@, Job(socks[i].owner, "element",
                                             NoError))])
        /\ lastOp' = "listenOk"
        /\ UNCHANGED <<stopMark, cleanMark, quiet, draining>>
        /\ Frame

\* the listen callback of a listener reports an error: the promise of the
\* listener is rejected
ListenFail ==
    \E i \in DOMAIN socks, e \in BindErrors :
        /\ socks[i].cb = "pending"
        /\ starts[socks[i].owner].all = "pending"
        /\ ~draining
        /\ Commit([Cur EXCEPT
                     !.socks[i].cb = "err",
                     !.socks[i].err = e,
                     !.micro = Append(@, Job(socks[i].owner, "element", e))])
        /\ lastOp' = "listenFail"
        /\ UNCHANGED <<stopMark, cleanMark, quiet, draining>>
        /\ Frame

\* the caller calls stop()
Stop ==
    /\ nEvents < MaxEvents
    /\ Commit(stop(Cur))
    /\ lastOp' = IF Idle THEN "stopIdle" ELSE "stop"
    /\ nStops' = nStops + 1
    /\ stopMark' = IF StartPending THEN anns ELSE stopMark
    /\ cleanMark' = IF StartCompleted /\ ~StartPending THEN anns ELSE cleanMark
    /\ quiet' = FALSE
    /\ lastReq' = NoReq
    /\ UNCHANGED <<now, nChanges, nRequests, draining>>
    /\ Outside

\* the device changes its status and emits 'change'
DeviceChange ==
    \E p \in Payloads \ {device.payload} :
        /\ nEvents < MaxEvents
        /\ LET s1 == emitChange([Cur EXCEPT !.device.payload = p], subs, now)
           IN  /\ Commit(s1)
               /\ quiet' = QuietAfter(s1, FALSE, TRUE)
        /\ lastOp' = "change"
        /\ nChanges' = nChanges + 1
        /\ lastReq' = NoReq
        /\ UNCHANGED <<now, nStops, nRequests, stopMark, cleanMark, draining>>
        /\ Outside

\* a pending timer expires and runs _broadcastStatus
TimerFire ==
    \E tm \in timers :
        /\ tm.at <= now
        /\ ~MicroPending
        /\ LET s1 == broadcastStatus([Cur EXCEPT !.timers = @ \ {tm}], "timer", now)
           IN  /\ Commit(s1)
               /\ quiet' = QuietAfter(s1, FALSE, FALSE)
        /\ lastOp' = "timer"
        /\ UNCHANGED <<stopMark, cleanMark, draining>>
        /\ Frame

\* a request arrives on a listener that has the request handler attached
Request ==
    \E method \in Methods, url \in Urls :
        /\ nEvents < MaxEvents
        /\ ~MicroPending
        /\ \E i \in DOMAIN socks : socks[i].handler /\ socks[i].cb = "ok"
        /\ LET s1 == requestHandler(Cur, method, url, now)
           IN  /\ Commit(s1)
               /\ lastReq' = [method |-> method, url |-> url,
                              ended |-> s1.nsent - nsent]
        /\ lastOp' = "request"
        /\ nRequests' = nRequests + 1
        /\ UNCHANGED <<now, nStops, nChanges, stopMark, quiet, cleanMark,
                       draining>>
        /\ Outside

\* time passes, up to the next timer's expiry: a timer runs at its deadline,
\* before the clock moves on
Advance ==
    /\ now < MaxTime
    /\ ~MicroPending
    /\ \A tm \in timers : tm.at > now
    /\ LET next == now + TimeStep
           due == {tm.at : tm \in timers}
           to == IF \E d \in due : d < next
                 THEN CHOOSE d \in due : \A e \in due : d <= e
                 ELSE next
       IN  /\ to <= MaxTime
           /\ now' = to
    /\ lastOp' = "advance"
    /\ lastReq' = NoReq
    /\ thrown' = NoError
    /\ logged' = NoError
    /\ UNCHANGED <<device, subs, server, multicastServer, socks, starts, micro,
                   draining, serial,
                   timeout, timers, nsent, anns, lastMsg, annTime, annCause,
                   prevAnnTime, prevAnnCause, nStops, nChanges, nRequests,
                   stopMark, quiet, cleanMark>>
    /\ Outside

Next ==
    \/ Start
    \/ PromiseAllJob
    \/ StartThenJob
    \/ StartSettleJob
    \/ ListenOk
    \/ ListenFail
    \/ Stop
    \/ DeviceChange
    \/ TimerFire
    \/ Request
    \/ Advance

Spec == Init /\ [][Next]_vars

SpecNearWrap == InitNearWrap /\ [][Next]_vars

\* the transport begins or ceases to fail: from now on req.end and res.end
\* throw, or no longer do
TransportFault ==
    /\ nEvents < MaxEvents
    /\ faulty' = ~faulty
    /\ nFaults' = nFaults + 1
    /\ lastOp' = "fault"
    /\ lastReq' = NoReq
    /\ thrown' = NoError
    /\ logged' = NoError
    /\ UNCHANGED <<device, subs, server, multicastServer, socks, starts, micro,
                   draining, serial,
                   timeout, timers, now, nsent, anns, lastMsg, annTime,
                   annCause, prevAnnTime, prevAnnCause, nStops, nChanges,
                   nRequests, stopMark, quiet, cleanMark, registry, codec>>

NextFaulty == Next \/ TransportFault

\* the server on a transport that can fail
SpecFaulty == Init /\ [][NextFaulty]_vars

\* what the process-level and codec actions leave alone: the one server
ServerVars ==
    <<device, subs, server, multicastServer, socks, starts, micro, draining,
      serial, timeout, timers, now, nsent, anns, lastMsg, annTime, annCause, prevAnnTime,
      prevAnnCause, thrown, lastReq, lastOp, nStops, nChanges, nRequests,
      stopMark, quiet, cleanMark, faulty, nFaults, logged>>

\* a process that has constructed no CoapServer yet
InitRegistry ==
    /\ InitCommon
    /\ serial = INITIAL_SERIAL
    /\ nsent = 0
    /\ registry = ProcessStart
    /\ codec = NoCodec

\* new CoapServer(device)
Construct ==
    /\ registry.instances < MaxInstances
    /\ registry' = NewCoapServer(registry)
    /\ UNCHANGED <<ServerVars, codec>>

\* a direct call of CoapServer.registerOptions()
RegisterOptionsCall ==
    /\ registry.calls < MaxRegisterCalls
    /\ registry' = registerOptions([registry EXCEPT !.calls = @ + 1])
    /\ UNCHANGED <<ServerVars, codec>>

NextRegistry == Construct \/ RegisterOptionsCall

SpecRegistry == InitRegistry /\ [][NextRegistry]_vars

\* the integers the two 16-bit options are given
CodecValues == 0 .. UINT16_MAX
\* an option value is given as a number or as its decimal string
CodecForms == {"number", "string"}

\* other strings a caller can set as an option: signed, after white space,
\* hexadecimal, with a tail, without digits, out of range
CodecTexts ==
    {<<"-", "5">>, <<"+", "5">>, <<" ", "4", "2">>, <<"0", "x", "1", "F">>,
     <<VerticalTab, "4", "2">>, <<NoBreakSpace, "\t", "-", "7">>,
     <<"1", "2", "p", "x">>, <<"a", "b", "c">>, <<>>,
     <<"7", "0", "0", "0", "0">>}

\* the str the option's toBinary receives, as parseInt reads it: a number
\* is converted to its decimal string
CodecInput(c) ==
    IF c.form = "text" THEN c.value ELSE NumberToString(c.value)

\* a value about to be set as option STATUS_VALIDITY or STATUS_SERIAL
InitCodec ==
    /\ InitCommon
    /\ serial = INITIAL_SERIAL
    /\ nsent = 0
    /\ registry = NewCoapServer(ProcessStart)
    /\ codec \in [stage : {"input"}, option : {STATUS_VALIDITY, STATUS_SERIAL},
                  form : CodecForms, value : CodecValues]
                 \cup [stage : {"input"},
                       option : {STATUS_VALIDITY, STATUS_SERIAL},
                       form : {"text"}, value : CodecTexts]

\* the option's toBinary: str => buf.writeUInt16BE(parseInt(str), 0)
OptionToBinary ==
    /\ codec.stage = "input"
    /\ LET w == WriteUInt16BE(ParseInt(CodecInput(codec)))
       IN  codec' = [stage |-> IF w.error = NoError THEN "encoded"
                               ELSE "failed",
                     option |-> codec.option, form |-> codec.form,
                     value |-> codec.value, bytes |-> w.bytes]
    /\ UNCHANGED <<ServerVars, registry>>

\* the option's toString: buf => buf.readUInt16BE(0)
OptionToString ==
    /\ codec.stage = "encoded"
    /\ codec' = [stage |-> "decoded", option |-> codec.option,
                 form |-> codec.form, value |-> codec.value,
                 bytes |-> codec.bytes, out |-> ReadUInt16BE(codec.bytes)]
    /\ UNCHANGED <<ServerVars, registry>>

NextCodec == OptionToBinary \/ OptionToString

SpecCodec == InitCodec /\ [][NextCodec]_vars

(* ------------------------------- claims ------------------------------- *)
AllClosed == \A i \in DOMAIN socks : socks[i].closes >= 1

TornDown ==
    /\ server = Null
    /\ multicastServer = Null
    /\ timeout = Null
    /\ timers = {}

\* C1: after a stop() made while a start() was pending, and until start()
\* is called again, no timer is pending, both listeners are null and no
\* announcement is sent, whatever the pending start() does when it completes.
C1_StopMidStartStaysTornDown ==
    stopMark # -1 => (TornDown /\ anns = stopMark)

\* C2: when a listen callback reports an error, the start() that waits for it
\* is rejected with that error, and then both listeners are null and every
\* listener created is closed, no timer is pending and no 'change'
\* subscription is left.
C2_FailedStartLeavesNothingOpen ==
    /\ lastOp = "startRejected" => (TornDown /\ AllClosed /\ subs = 0)
    /\ \A k \in DOMAIN starts :
          starts[k].st = "rejected" =>
              \E i \in DOMAIN socks :
                  /\ socks[i].owner = k
                  /\ socks[i].cb = "err"
                  /\ socks[i].err = starts[k].err
                  /\ socks[i].err \in BindErrors

\* a start() was rejected by the multicast listener's bind error after the
\* unicast listener had reported success
C2_Witness ==
    /\ lastOp = "startRejected"
    /\ \E i, j \in DOMAIN socks :
          /\ socks[i].owner = socks[j].owner
          /\ socks[i].kind = "unicast" /\ socks[i].cb = "ok"
          /\ socks[i].closes = 1
          /\ socks[j].kind = "multicast" /\ socks[j].cb = "err"
          /\ starts[socks[j].owner].err = socks[j].err

\* one start() so far, and neither a stop() nor a 'change' event
Undisturbed == Len(starts) = 1 /\ nStops = 0 /\ nChanges = 0

OneTimerAt(t) ==
    /\ timeout # Null
    /\ timers = {[id |-> timeout, at |-> t]}

\* C3: after one start(), without 'change' events and stop(): nothing is
\* announced and no timer is armed before the start completes, that is
\* before its .then callback runs; the completion sends exactly one
\* announcement and the promise is resolved right after it; every later
\* announcement is sent by a timer expiry, exactly 30000 ms after the one
\* before it, one per expiry; and after each a timer is pending for
\* 30000 ms later.
C3_OneAnnouncementPerPeriod ==
    [][Undisturbed' =>
         /\ (~StartAnnounced(1)' => anns' = 0 /\ timers' = {})
         /\ (starts'[1].st = "rejected" => anns' = 0 /\ timers' = {})
         /\ (starts'[1].st = "resolved" => StartAnnounced(1)')
         /\ (StartAnnounced(1)' =>
                /\ anns' >= 1
                /\ OneTimerAt(annTime + BROADCAST_INTERVAL)'
                /\ now' <= annTime' + BROADCAST_INTERVAL)
         /\ (Undisturbed /\ ~StartAnnounced(1) /\ StartAnnounced(1)' =>
                anns' = 1 /\ annCause' = "start" /\ annTime' = now)
         /\ (Undisturbed /\ StartAnnounced(1) /\ starts[1].st = "pending" =>
                starts'[1].st = "resolved" /\ anns' = anns /\ now' = now)
         /\ (Undisturbed /\ StartAnnounced(1) /\ anns' # anns =>
                /\ anns' = anns + 1
                /\ annCause' = "timer"
                /\ annTime' = annTime + BROADCAST_INTERVAL
                /\ now = annTime')
         /\ (Undisturbed /\ StartAnnounced(1) /\ now = annTime + BROADCAST_INTERVAL
               /\ now' > now => anns' = anns + 1)
      ]_vars

\* the second announcement after an undisturbed start, sent by the timer
C3_Witness ==
    /\ Undisturbed
    /\ starts[1].st = "resolved"
    /\ anns = 2
    /\ annCause = "timer"
    /\ annTime = prevAnnTime + BROADCAST_INTERVAL
    /\ prevAnnCause = "start"
    /\ OneTimerAt(annTime + BROADCAST_INTERVAL)

\* C4, as claimed: after an announcement at time t, and without a further
\* 'change' event or stop(), the next announcement is sent exactly at
\* t + 30000 ms and none in between.
C4_NextAnnouncementAfterInterval ==
    [][/\ (quiet /\ anns > 0 /\ anns' # anns /\ lastOp' # "change" =>
              /\ anns' = anns + 1
              /\ now = annTime + BROADCAST_INTERVAL)
       /\ (quiet' /\ anns' > 0 =>
              /\ OneTimerAt(annTime + BROADCAST_INTERVAL)'
              /\ now' <= annTime' + BROADCAST_INTERVAL)
      ]_vars

\* C4, amended: after the last announcement that a start() completion, a
\* timer expiry or a 'change' event sends at time t, and without a further
\* 'change' event, start() completion or stop(), the next announcement is
\* sent exactly at t + 30000 ms, by the timer armed at t, and none in between.
C4_TimerResetByEveryAnnouncement ==
    [][/\ (quiet /\ anns > 0 /\ anns' # anns /\ lastOp' # "change"
             /\ lastOp' # "startThen" =>
              /\ anns' = anns + 1
              /\ annCause' = "timer"
              /\ now = annTime + BROADCAST_INTERVAL)
       /\ (quiet' /\ anns' > 0 =>
              /\ OneTimerAt(annTime + BROADCAST_INTERVAL)'
              /\ now' <= annTime' + BROADCAST_INTERVAL)
      ]_vars

\* a 'change' event half a period after the start's announcement, and the next
\* announcement 30000 ms after the 'change' event
C4_Witness ==
    /\ annCause = "timer"
    /\ prevAnnCause = "change"
    /\ prevAnnTime = TimeStep
    /\ annTime = TimeStep + BROADCAST_INTERVAL
    /\ anns = 3
    /\ quiet

\* C5: at most one broadcast timer is pending, and it is the one that
\* this._statusBroadcastTimeout holds.
C5_AtMostOnePendingTimer ==
    /\ Cardinality(timers) <= 1
    /\ \A tm \in timers : tm.id = timeout

\* a 'change' event has replaced the timer that an earlier announcement armed
C5_Witness ==
    /\ anns >= 2
    /\ annCause = "change"
    /\ prevAnnTime < annTime
    /\ timers = {[id |-> timeout, at |-> annTime + BROADCAST_INTERVAL]}

\* C6: the k-th message sent, announcements and responses counted together,
\* carries serial k, and the counter is one more than the messages sent.
C6_SerialIsSharedSequence ==
    /\ serial = nsent + 1
    /\ nsent > 0 => ReadUInt16BE(lastMsg.serial) = nsent

\* an announcement, a response, and an announcement that carries serial 3
C6_Witness ==
    /\ nsent = 3
    /\ anns = 2
    /\ lastMsg.kind = "announcement"
    /\ ReadUInt16BE(lastMsg.serial) = 3

\* C7: the serial wraps as a 16-bit value: every announcement and response is
\* sent, also the one after the message that carries 65535, and the k-th
\* message carries k modulo 65536.
C7_SerialWrapsAsUInt16 ==
    /\ thrown = NoError
    /\ serial = nsent + 1
    /\ lastMsg # NoMsg => ReadUInt16BE(lastMsg.serial) = nsent % (UINT16_MAX + 1)

IsStatusRequest(req) == req.method = "GET" /\ req.url = STATUS_PATH

\* C8: a GET /cit/s request gets exactly one response, with Uri-Path cit/s,
\* the identifier type#id#1, validity 38400, the serial the counter had
\* before the request, and the serialized payload of the device as body.
C8_StatusRequestIsAnswered ==
    [][lastOp' = "request" /\ IsStatusRequest(lastReq') =>
         /\ lastReq'.ended = 1
         /\ thrown' = NoError
         /\ nsent' = nsent + 1
         /\ anns' = anns
         /\ lastMsg'.kind = "response"
         /\ lastMsg'.uriPath = << <<"c", "i", "t">>, <<"s">> >>
         /\ lastMsg'.devid = device.type \o "#" \o device.id \o "#1"
         /\ ReadUInt16BE(lastMsg'.validity) = 38400
         /\ ReadUInt16BE(lastMsg'.serial) = serial
         /\ lastMsg'.body = JSONstringify(device.payload)
         /\ device' = device
      ]_vars

\* a response sent after a 'change' event set the payload to 17
C8_Witness ==
    /\ lastOp = "request"
    /\ IsStatusRequest(lastReq)
    /\ lastMsg.kind = "response"
    /\ lastMsg.body = <<"1", "7">>
    /\ ReadUInt16BE(lastMsg.serial) = 3

\* C9: a request that is not GET /cit/s gets no response, raises no error
\* and changes neither the serial, the timer nor the listeners.
C9_OtherRequestsAreIgnored ==
    [][lastOp' = "request" /\ ~IsStatusRequest(lastReq') =>
         /\ lastReq'.ended = 0
         /\ thrown' = NoError
         /\ UNCHANGED <<serial, timeout, timers, server, multicastServer, socks,
                        nsent, anns, lastMsg, subs, device, starts>>
      ]_vars

\* a POST to /cit/s was handled on a started server and not answered
C9_Witness ==
    /\ lastOp = "request"
    /\ lastReq.method = "POST"
    /\ lastReq.url = STATUS_PATH
    /\ lastReq.ended = 0
    /\ timeout # Null
    /\ nsent = 1

StopStep(op) == op \in {"stop", "stopIdle"}

\* C10: stop() raises nothing in any state, leaves the listeners null, no
\* timer and no subscription, keeps the serial and closes no listener
\* twice; a stop() right after a stop() changes nothing.
C10_StopIsIdempotent ==
    [][StopStep(lastOp') =>
         /\ thrown' = NoError
         /\ TornDown'
         /\ subs' = 0
         /\ serial' = serial
         /\ \A i \in DOMAIN socks' : socks'[i].closes <= 1
         /\ (StopStep(lastOp) =>
                UNCHANGED <<server, multicastServer, timeout, timers, subs,
                            serial, socks, starts, device, nsent, anns, lastMsg>>)
      ]_vars

\* the second of two stop() calls on a server that had started
C10_Witness ==
    /\ lastOp = "stopIdle"
    /\ nStops = 2
    /\ Len(starts) = 1
    /\ starts[1].st = "resolved"
    /\ AllClosed


\* C11: after a stop() made when a start() had completed and none was
\* pending, and until start() is called again, no announcement is sent, no
\* timer is pending and nothing is subscribed to 'change', whatever events
\* occur, however much time passes and however often start() had been called.
C11_StoppedServerStaysSilent ==
    cleanMark # -1 =>
        /\ anns = cleanMark
        /\ subs = 0
        /\ timeout = Null
        /\ timers = {}

\* two start() calls completed, stop() was called, and a whole announcement
\* period has passed since the last announcement
C11_Witness ==
    /\ cleanMark # -1
    /\ Len(starts) = 2
    /\ \A k \in DOMAIN starts : starts[k].st = "resolved"
    /\ anns = cleanMark
    /\ anns >= 2
    /\ lastOp = "advance"
    /\ now >= annTime + BROADCAST_INTERVAL

\* the listener of the given kind that the k-th start() relies on: the one
\* it created, or the one an earlier start() had created and stop() had not
\* closed
ListenerOf(k, kind) ==
    CHOOSE i \in DOMAIN socks :
        /\ socks[i].kind = kind
        /\ socks[i].owner <= k
        /\ \A j \in DOMAIN socks :
              (socks[j].kind = kind /\ socks[j].owner <= k)
                  => socks[j].owner <= socks[i].owner

\* C12: the promise of a start() call is resolved, and its initial
\* announcement attempted, only after the listen callbacks of both
\* listeners, the unicast and the multicast one, have reported success,
\* also for a start() called while an earlier one binds.
C12_ResolvedOnlyAfterBothBound ==
    \A k \in DOMAIN starts :
        (starts[k].st = "resolved" \/ StartAnnounced(k)) =>
            /\ socks[ListenerOf(k, "unicast")].cb = "ok"
            /\ socks[ListenerOf(k, "multicast")].cb = "ok"

\* C13: a step in which _broadcastStatus ran and its send threw, whether
\* start(), the timer or a 'change' event called it, leaves the listeners and
\* the subscription as they were and one timer pending BROADCAST_INTERVAL
\* after the attempt; and the step that settles a start() whose
\* _broadcastStatus threw leaves the listeners, the subscription and the
\* timer as they were.
C13_FailedSendKeepsCadence ==
    [][/\ (lastOp' # "request" /\ serial' - serial > nsent' - nsent) =>
              /\ OneTimerAt(now + BROADCAST_INTERVAL)'
              /\ UNCHANGED <<server, multicastServer, subs>>
       /\ \A k \in DOMAIN starts :
              (starts[k].ran = "threw" /\ starts[k].st = "pending"
                 /\ starts'[k].st # "pending") =>
                  UNCHANGED <<server, multicastServer, subs, timeout, timers>>
      ]_vars

\* C14: an exception raised while the response to GET /cit/s is built or
\* sent is given to console.error and leaves _requestHandler as the same
\* exception.
C14_ResponseErrorIsLoggedAndRethrown ==
    [][(lastOp' = "request" /\ IsStatusRequest(lastReq') /\ faulty) =>
         /\ thrown' = SendError
         /\ logged' = SendError
         /\ lastReq'.ended = 0
      ]_vars

\* a GET /cit/s was handled while the transport failed
C14_Witness ==
    /\ lastOp = "request"
    /\ IsStatusRequest(lastReq)
    /\ faulty
    /\ thrown = SendError
    /\ logged = SendError

\* C15: every announcement is a multicast request to 224.0.1.187 on /cit/s
\* with multicastTimeout 100, the identifier type#id#1 and the payload the
\* device has when it is sent, validity 38400 and the serial the counter had
\* before it; the counter grows by one per announcement.
C15_AnnouncementContents ==
    [][anns' > anns =>
         /\ lastMsg'.kind = "announcement"
         /\ lastMsg'.host = "224.0.1.187"
         /\ lastMsg'.pathname = <<"/", "c", "i", "t", "/", "s">>
         /\ lastMsg'.multicast = TRUE
         /\ lastMsg'.multicastTimeout = 100
         /\ lastMsg'.devid = device'.type \o "#" \o device'.id \o "#1"
         /\ ReadUInt16BE(lastMsg'.validity) = 38400
         /\ ReadUInt16BE(lastMsg'.serial) = serial' - 1
         /\ lastMsg'.body = JSONstringify(device'.payload)
         /\ serial' - serial = anns' - anns
      ]_vars

\* a 'change' event set the payload to 17 and the announcement it caused
\* carries 17
C15_Witness ==
    /\ lastOp = "change"
    /\ annCause = "change"
    /\ lastMsg.kind = "announcement"
    /\ device.payload = 17
    /\ lastMsg.body = <<"1", "7">>
    /\ ReadUInt16BE(lastMsg.serial) = serial - 1

\* C16: once anything was constructed or registerOptions() was called, each
\* of the three custom options has been registered exactly once, however
\* many instances and calls there were.
C16_OptionsRegisteredOnce ==
    (registry.instances + registry.calls >= 1) =>
        /\ registry.flag
        /\ \A o \in CustomOptions : registry.count[o] = 1

\* several instances and several direct calls
C16_Witness ==
    /\ registry.instances >= 2
    /\ registry.calls >= 2
    /\ \A o \in CustomOptions : registry.count[o] = 1

\* C17: an integer of [0, 65535], given as a number or as its decimal
\* string, is encoded as its two bytes, high byte first, and decoded to
\* itself.
C17_UInt16RoundTrip ==
    (codec.stage # "idle" /\ codec.form \in CodecForms) =>
        /\ codec.stage # "failed"
        /\ codec.stage \in {"encoded", "decoded"} =>
              /\ Len(codec.bytes) = 2
              /\ codec.bytes[1] = codec.value \div 256
              /\ codec.bytes[2] = codec.value % 256
        /\ codec.stage = "decoded" => codec.out = codec.value

\* the decimal string of 38400 went through STATUS_VALIDITY's functions
C17_Witness ==
    /\ codec.stage = "decoded"
    /\ codec.option = STATUS_VALIDITY
    /\ codec.form = "string"
    /\ codec.value = 38400
    /\ codec.bytes = <<150, 0>>
    /\ codec.out = 38400

\* C18: between callbacks the two listener fields are both set or both
\* null, and a listener stop() closed has no request handler.
C18_ListenersPaired ==
    /\ (server = Null) <=> (multicastServer = Null)
    /\ \A i \in DOMAIN socks : socks[i].closes >= 1 => ~socks[i].handler

\* a server that was started, stopped and started again
C18_Witness ==
    /\ server # Null
    /\ multicastServer # Null
    /\ \E i \in DOMAIN socks : socks[i].closes >= 1 /\ ~socks[i].handler
    /\ \E i \in DOMAIN socks : socks[i].closes = 0 /\ socks[i].handler

\* C19: a 'change' event on a server that is subscribed sends exactly one
\* announcement, uses one serial and leaves one timer, however often start()
\* was called.
C19_OneAnnouncementPerChange ==
    [][(lastOp' = "change" /\ subs >= 1) =>
         /\ anns' = anns + 1
         /\ serial' = serial + 1
         /\ OneTimerAt(now + BROADCAST_INTERVAL)'
      ]_vars

\* C20: handling a request leaves the announcement timer, its expiry and the
\* announcements sent as they were; a GET /cit/s uses one serial.
C20_RequestKeepsSchedule ==
    [][lastOp' = "request" =>
         /\ UNCHANGED <<timeout, timers, anns, annTime, annCause, now>>
         /\ IsStatusRequest(lastReq') => serial' = serial + 1
         /\ ~IsStatusRequest(lastReq') => serial' = serial
      ]_vars

\* a request was answered between the announcement of start() and the
\* timer's, which came BROADCAST_INTERVAL after the first
C20_Witness ==
    /\ nRequests >= 1
    /\ nsent = 3
    /\ anns = 2
    /\ annCause = "timer"
    /\ prevAnnCause = "start"
    /\ annTime = prevAnnTime + BROADCAST_INTERVAL

====
